---- MODULE Spec2Model ----
(***************************************************************************)
(* The kitsu client library: two implementations of the KitsuRequester     *)
(* trait, one for the reqwest client (async/await, src/reqwest_kitsu.rs)   *)
(* and one for the hyper client (future combinators, src/bridge/hyper.rs). *)
(* Every method formats a URL against API_URL, parses it, issues one GET   *)
(* and turns the reply into a typed result.                                *)
(*                                                                         *)
(* Strings are sequences of tokens: a token is either one reserved         *)
(* character (" ", "&", "=", "?", "/", "%") or a run of unreserved ones.   *)
(***************************************************************************)
EXTENDS Integers, Sequences, FiniteSets, TLC

\* client:   which client type the trait methods are called on
\* calls:    the calls made on the client, by slot
\* returned: how many calls on the client have returned (history only)
VARIABLES client, calls, returned

vars == <<client, calls, returned>>

(* ------------------------------ bounds -------------------------------- *)

\* The largest id passed to a get_* method (ids are 1 and MaxId).
MaxId == 12

\* The largest number of filter(key, value) calls a filter function makes.
MaxFilters == 2

\* The number of calls that return before the last call of a run is made.
MaxReturned == 2

(* ------------------------------ strings ------------------------------- *)

\* crate::API_URL: a constant absolute URL, kept as one opaque token.
API_URL == <<"API_URL">>

DigitChars == <<"0", "1", "2", "3", "4", "5", "6", "7", "8", "9">>

\* u64's Display / to_string: the decimal digits, most significant first.
RECURSIVE u64_to_string(_)
u64_to_string(n) ==
    IF n < 10 THEN <<DigitChars[n + 1]>>
    ELSE u64_to_string(n \div 10) \o <<DigitChars[(n % 10) + 1]>>

\* format_get with the path closed by a trailing "/".
format_get_trailing(path, id) ==
    API_URL \o <<"/", path, "/">> \o u64_to_string(id) \o <<"/">>

\* format!("{}/<path>/{}", API_URL, id)
format_get(path, id) == API_URL \o <<"/", path, "/">> \o u64_to_string(id)

\* format_search that closes the query with a separator.
format_search_separator(path, params) ==
    API_URL \o <<"/", path, "?">> \o params \o <<"&">>

\* format!("{}/<path>?{}", API_URL, params)
format_search(path, params) == API_URL \o <<"/", path, "?">> \o params

Contains(s, t) == \E i \in 1..Len(s) : s[i] = t

(* --------------------------- query builder ---------------------------- *)

\* Search::default(): the empty builder. The builder is a tuple struct whose
\* field 0 is the encoded query string (the bridges read it as `.0`).
Search_default == <<>>

\* Percent-encoding of one token: reserved characters are escaped.
encode_token(t) ==
    CASE t = " " -> "%20"
      [] t = "&" -> "%26"
      [] t = "=" -> "%3D"
      [] t = "?" -> "%3F"
      [] t = "%" -> "%25"
      [] OTHER   -> t

percent_encode(s) == [i \in 1..Len(s) |-> encode_token(s[i])]

\* Search_filter that starts the string over instead of appending to it.
Search_filter_replace(b, key, value) ==
    percent_encode(key) \o <<"=">> \o percent_encode(value)

\* Search::filter(key, value): appends one encoded pair, "&"-separated.
Search_filter(b, key, value) ==
    (IF b = <<>> THEN <<>> ELSE b \o <<"&">>)
        \o percent_encode(key) \o <<"=">> \o percent_encode(value)

(* A caller's filter function F: FnOnce(Search) -> Search. It either chains  *)
(* filter() calls on the builder it is given, or returns a builder it made   *)
(* itself from a raw string.                                                 *)
PairChoices ==
    { <<(<<"text">>), (<<"non", " ", "non", " ", "biyori">>)>>,
      <<(<<"text">>), (<<"orange">>)>>,
      <<(<<"a", "=">>), (<<"b", "&", "c">>)>> }

RawChoices == { <<"a", " ", "b">> }

RECURSIVE SeqsUpTo(_, _)
SeqsUpTo(S, n) ==
    IF n = 0 THEN { <<>> }
    ELSE LET shorter == SeqsUpTo(S, n - 1)
         IN  shorter \cup { Append(s, x) : s \in shorter, x \in S }

NoFilter == [kind |-> "none", pairs |-> <<>>, raw |-> <<>>]

FilterFns ==
    { [kind |-> "chain", pairs |-> ps, raw |-> <<>>] : ps \in SeqsUpTo(PairChoices, MaxFilters) }
    \cup { [kind |-> "raw", pairs |-> <<>>, raw |-> r] : r \in RawChoices }

RECURSIVE chain_filters(_, _)
chain_filters(b, ps) ==
    IF ps = <<>> THEN b
    ELSE chain_filters(Search_filter(b, Head(ps)[1], Head(ps)[2]), Tail(ps))

\* f(b): the builder the caller's function returns for the builder b.
apply_fn(f, b) == IF f.kind = "raw" THEN f.raw ELSE chain_filters(b, f.pairs)

(* ----------------------------- URL parsers ---------------------------- *)

\* Characters that are not legal in a URI and that the url crate escapes.
IllegalChars == { " " }

\* url::Url::parse (reqwest): an absolute URL with a valid base always parses;
\* illegal characters of the query are percent-encoded in the parsed Url.
Url_parse(s) ==
    IF Len(s) >= Len(API_URL) /\ SubSeq(s, 1, Len(API_URL)) = API_URL
    THEN [ok |-> TRUE,
          url |-> [i \in 1..Len(s) |-> IF s[i] \in IllegalChars THEN encode_token(s[i]) ELSE s[i]]]
    ELSE [ok |-> FALSE, url |-> <<>>]

\* http::uri::Uri::from_str (hyper): rejects a string holding an illegal
\* character, and keeps an accepted string as it is.
Uri_from_str(s) ==
    IF \E i \in 1..Len(s) : s[i] \in IllegalChars
    THEN [ok |-> FALSE, url |-> <<>>]
    ELSE [ok |-> TRUE, url |-> s]

\* try_uri that lets an unparsable string through.
try_uri_lenient(s) == [ok |-> TRUE, url |-> s]

\* try_uri!: the parsed Uri, or an early return of Error::Uri.
try_uri(s) == Uri_from_str(s)

(* ---------------------- replies, values and errors --------------------- *)

Statuses == { 200, 201, 301, 400, 401, 404, 500 }

Item(i) == [id |-> i]

NoBody == [wellformed |-> FALSE, key |-> "none", isArray |-> FALSE, items |-> <<>>]

\* Bodies the service can send: bytes that are no JSON, the service's error
\* document, {"data": {...}} and {"data": [...]}.
Bodies ==
    { [wellformed |-> FALSE, key |-> "garbage", isArray |-> FALSE, items |-> <<>>],
      [wellformed |-> TRUE, key |-> "errors", isArray |-> TRUE, items |-> <<>>],
      [wellformed |-> TRUE, key |-> "data", isArray |-> FALSE, items |-> <<Item("1")>>],
      [wellformed |-> TRUE, key |-> "data", isArray |-> FALSE, items |-> <<Item("2")>>],
      [wellformed |-> TRUE, key |-> "data", isArray |-> TRUE, items |-> <<>>],
      [wellformed |-> TRUE, key |-> "data", isArray |-> TRUE, items |-> <<Item("1")>>],
      [wellformed |-> TRUE, key |-> "data", isArray |-> TRUE, items |-> <<Item("1"), Item("2")>>] }

NoResp == [kind |-> "none", status |-> 0, body |-> NoBody]

\* What the transport gives back for one request: no response at all (the
\* exchange failed), or a response with a status and a body.
Outcomes ==
    { [kind |-> "failed", status |-> 0, body |-> NoBody] }
    \cup { [kind |-> "http", status |-> st, body |-> b] : st \in Statuses, b \in Bodies }

NoValue == [vec |-> FALSE, data |-> <<>>]

NoResult == [kind |-> "none", value |-> NoValue, variant |-> "none",
             cause |-> "none", response |-> NoResp]

Ok(v) == [NoResult EXCEPT !.kind = "ok", !.value = v]

Err(variant, cause, response) ==
    [NoResult EXCEPT !.kind = "err", !.variant = variant, !.cause = cause,
                     !.response = response]

\* The decode target of a method: Response<T> for get_*, Response<Vec<T>>
\* for search_*.
GetOps == { "get_anime", "get_character", "get_manga", "get_producer", "get_user" }
SearchOps == { "search_anime", "search_characters", "search_manga", "search_users" }
IsVec(op) == op \in SearchOps

\* serde_json decoding of a body into Response<T> (vec = FALSE) or
\* Response<Vec<T>> (vec = TRUE): the body must be JSON with a "data" member
\* of the target's shape; the decoded value holds the members of "data".
json_decode(vec, body) ==
    IF body.wellformed /\ body.key = "data" /\ body.isArray = vec
    THEN [ok |-> TRUE, value |-> [vec |-> vec, data |-> body.items]]
    ELSE [ok |-> FALSE, value |-> NoValue]

(* --------------------------- reply handling --------------------------- *)

\* from_reqwest_error that reports the failure as an invalid response.
from_reqwest_error_invalid(cause) == Err("ReqwestInvalid", cause, NoResp)

\* From<reqwest::Error> for Error, used by `?` on send() and by
\* map_err(From::from) on json(): one conversion for both failures, which
\* wraps the reqwest error (cause says which step produced it).
from_reqwest_error(cause) == Err("Reqwest", cause, NoResp)

\* From<hyper::Error> for Error (map_err(From::from) on the response future).
from_hyper_error(cause) == Err("Hyper", cause, NoResp)

\* From<serde_json::Error> for Error (map_err(From::from) on from_slice).
from_json_error(cause) == Err("Json", cause, NoResp)

\* status_arm that takes every 2xx status for success.
status_arm_success(st) ==
    CASE st \in 200..299 -> "Ok"
      [] st = 400 -> "ReqwestBad"
      [] st = 401 -> "ReqwestUnauthorized"
      [] OTHER    -> "ReqwestInvalid"

\* status_arm that matches 201 (CREATED) where the code matches 200 (OK).
status_arm_created(st) ==
    CASE st = 201 -> "Ok"
      [] st = 400 -> "ReqwestBad"
      [] st = 401 -> "ReqwestUnauthorized"
      [] OTHER    -> "ReqwestInvalid"

\* The match on response.status() of handle_request.
status_arm(st) ==
    CASE st = 200 -> "Ok"
      [] st = 400 -> "ReqwestBad"
      [] st = 401 -> "ReqwestUnauthorized"
      [] OTHER    -> "ReqwestInvalid"

\* handle_request that reads the body of every response before it looks at
\* the status.
handle_request_eager(vec, o) ==
    IF o.kind = "failed"
    THEN [result |-> from_reqwest_error("send"),
          statusRead |-> FALSE, bodyReads |-> 0, decodes |-> 0]
    ELSE IF status_arm(o.status) # "Ok"
    THEN [result |-> Err(status_arm(o.status), "status", o),
          statusRead |-> TRUE, bodyReads |-> 1, decodes |-> 0]
    ELSE LET d == json_decode(vec, o.body)
         IN  [result |-> IF d.ok THEN Ok(d.value) ELSE from_reqwest_error("decode"),
              statusRead |-> TRUE, bodyReads |-> 1, decodes |-> 1]

\* handle_request::<T>: what the call returns for the outcome o of send(),
\* with what it looked at on the way.
handle_request(vec, o) ==
    IF o.kind = "failed"
    THEN [result |-> from_reqwest_error("send"),
          statusRead |-> FALSE, bodyReads |-> 0, decodes |-> 0]
    ELSE IF status_arm(o.status) # "Ok"
    THEN [result |-> Err(status_arm(o.status), "status", o),
          statusRead |-> TRUE, bodyReads |-> 0, decodes |-> 0]
    ELSE LET d == json_decode(vec, o.body)
         IN  [result |-> IF d.ok THEN Ok(d.value) ELSE from_reqwest_error("decode"),
              statusRead |-> TRUE, bodyReads |-> 1, decodes |-> 1]

\* hyper_chain that turns a non-200 status into an error before decoding.
hyper_chain_checked(vec, o) ==
    IF o.kind = "failed"
    THEN [result |-> from_hyper_error("get"),
          statusRead |-> FALSE, bodyReads |-> 0, decodes |-> 0]
    ELSE IF o.status # 200
    THEN [result |-> Err("ReqwestInvalid", "status", o),
          statusRead |-> TRUE, bodyReads |-> 0, decodes |-> 0]
    ELSE LET d == json_decode(vec, o.body)
         IN  [result |-> IF d.ok THEN Ok(d.value) ELSE from_json_error("decode"),
              statusRead |-> TRUE, bodyReads |-> 1, decodes |-> 1]

\* The combinator chain of the hyper methods:
\* get(uri).and_then(concat2).map_err(From::from).and_then(from_slice).
hyper_chain(vec, o) ==
    IF o.kind = "failed"
    THEN [result |-> from_hyper_error("get"),
          statusRead |-> FALSE, bodyReads |-> 0, decodes |-> 0]
    ELSE LET d == json_decode(vec, o.body)
         IN  [result |-> IF d.ok THEN Ok(d.value) ELSE from_json_error("decode"),
              statusRead |-> FALSE, bodyReads |-> 1, decodes |-> 1]

(* ------------------------------- calls -------------------------------- *)

Slots == { 1, 2 }

\* The slots the sequential specification uses.
SeqSlots == { 1 }

Ids == { 1, MaxId }

IdleCall ==
    [pc |-> "idle", op |-> "none", id |-> 0, f |-> NoFilter,
     fApplied |-> 0, fArg |-> <<>>, built |-> <<>>, url |-> <<>>, sent |-> 0,
     resp |-> NoResp, statusRead |-> FALSE, bodyReads |-> 0, decodes |-> 0,
     result |-> NoResult]

\* run_filter that hands the function a builder left over from an earlier call.
run_filter_stale(f) ==
    LET old == Search_filter(Search_default, <<"text">>, <<"orange">>)
    IN  [params |-> apply_fn(f, old), applied |-> 1, arg |-> old]

\* f(Search::default()).0: the caller's function runs once, on a new builder.
run_filter(f) ==
    [params |-> apply_fn(f, Search_default), applied |-> 1, arg |-> Search_default]

\* self.get(uri) followed by sending it: one GET for the parsed URL.
dispatch(call, url) ==
    [call EXCEPT !.pc = "awaiting", !.url = url, !.sent = @ + 1]

\* finish that sends the request once more when the first attempt failed.
finish_retry(call, r) ==
    IF r.kind = "err" /\ call.sent = 1
    THEN [call EXCEPT !.pc = "awaiting", !.sent = @ + 1]
    ELSE [call EXCEPT !.pc = "done", !.result = r]

\* A method returns: the call ends with the result r.
finish(call, r) ==
    [call EXCEPT !.pc = "done", !.result = r]

\* A reqwest method up to its first suspension: Url::parse(..)? and then
\* handle_request(self.get(uri)), which sends the request.
reqwest_begin(call, str) ==
    LET p == Url_parse(str)
    IN  IF p.ok THEN dispatch([call EXCEPT !.built = str], p.url)
        ELSE finish([call EXCEPT !.built = str], Err("ReqwestParse", "url", NoResp))

\* A hyper method up to the future it returns: try_uri!(c) and then self.get(uri).
hyper_begin(call, str) ==
    LET p == try_uri(str)
    IN  IF p.ok THEN dispatch([call EXCEPT !.built = str], p.url)
        ELSE finish([call EXCEPT !.built = str], Err("Uri", "uri", NoResp))

get_call(op, id) == [IdleCall EXCEPT !.op = op, !.id = id]

search_call(op, f, r) ==
    [IdleCall EXCEPT !.op = op, !.f = f, !.fApplied = r.applied, !.fArg = r.arg]

TypeOK ==
    /\ client \in { "reqwest", "hyper" }
    /\ DOMAIN calls = Slots
    /\ \A c \in Slots : calls[c].pc \in { "idle", "awaiting", "done" }
    /\ returned \in 0..MaxReturned

Init ==
    /\ client \in { "reqwest", "hyper" }
    /\ calls = [c \in Slots |-> IdleCall]
    /\ returned = 0

(* ---------------- impl KitsuRequester for KitsuClient ----------------- *)

Reqwest_get_anime(c, id) ==
    /\ client = "reqwest" /\ calls[c].pc = "idle"
    /\ calls' = [calls EXCEPT ![c] =
            reqwest_begin(get_call("get_anime", id), format_get("anime", id))]
    /\ UNCHANGED <<client, returned>>

Reqwest_get_manga(c, id) ==
    /\ client = "reqwest" /\ calls[c].pc = "idle"
    /\ calls' = [calls EXCEPT ![c] =
            reqwest_begin(get_call("get_manga", id), format_get("manga", id))]
    /\ UNCHANGED <<client, returned>>

Reqwest_get_user(c, id) ==
    /\ client = "reqwest" /\ calls[c].pc = "idle"
    /\ calls' = [calls EXCEPT ![c] =
            reqwest_begin(get_call("get_user", id), format_get("users", id))]
    /\ UNCHANGED <<client, returned>>

Reqwest_search_anime(c, f) ==
    /\ client = "reqwest" /\ calls[c].pc = "idle"
    /\ LET r == run_filter(f)
       IN  calls' = [calls EXCEPT ![c] =
               reqwest_begin(search_call("search_anime", f, r), format_search("anime", r.params))]
    /\ UNCHANGED <<client, returned>>

Reqwest_search_manga(c, f) ==
    /\ client = "reqwest" /\ calls[c].pc = "idle"
    /\ LET r == run_filter(f)
       IN  calls' = [calls EXCEPT ![c] =
               reqwest_begin(search_call("search_manga", f, r), format_search("manga", r.params))]
    /\ UNCHANGED <<client, returned>>

Reqwest_search_users(c, f) ==
    /\ client = "reqwest" /\ calls[c].pc = "idle"
    /\ LET r == run_filter(f)
       IN  calls' = [calls EXCEPT ![c] =
               reqwest_begin(search_call("search_users", f, r), format_search("users", r.params))]
    /\ UNCHANGED <<client, returned>>

\* Reqwest_complete that decodes for the method of the call started last on
\* the client (the other call when one is in flight), not for its own.
Reqwest_complete_shared(c, o) ==
    /\ client = "reqwest" /\ calls[c].pc = "awaiting"
    /\ LET others == { d \in Slots : d # c /\ calls[d].pc # "idle" }
           last == IF others = {} THEN c ELSE CHOOSE d \in others : TRUE
           h == handle_request(IsVec(calls[last].op), o)
       IN  calls' = [calls EXCEPT ![c] =
               finish([@ EXCEPT !.resp = o, !.statusRead = h.statusRead,
                                !.bodyReads = h.bodyReads, !.decodes = h.decodes],
                      h.result)]
    /\ UNCHANGED <<client, returned>>

\* The rest of handle_request, once send() has an outcome.
Reqwest_complete(c, o) ==
    /\ client = "reqwest" /\ calls[c].pc = "awaiting"
    /\ LET h == handle_request(IsVec(calls[c].op), o)
       IN  calls' = [calls EXCEPT ![c] =
               finish([@ EXCEPT !.resp = o, !.statusRead = h.statusRead,
                                !.bodyReads = h.bodyReads, !.decodes = h.decodes],
                      h.result)]
    /\ UNCHANGED <<client, returned>>

(* ------------- impl KitsuRequester for HyperClient<C, Body> ------------ *)

Hyper_get_anime(c, id) ==
    /\ client = "hyper" /\ calls[c].pc = "idle"
    /\ calls' = [calls EXCEPT ![c] =
            hyper_begin(get_call("get_anime", id), format_get("anime", id))]
    /\ UNCHANGED <<client, returned>>

Hyper_get_character(c, id) ==
    /\ client = "hyper" /\ calls[c].pc = "idle"
    /\ calls' = [calls EXCEPT ![c] =
            hyper_begin(get_call("get_character", id), format_get("characters", id))]
    /\ UNCHANGED <<client, returned>>

Hyper_get_manga(c, id) ==
    /\ client = "hyper" /\ calls[c].pc = "idle"
    /\ calls' = [calls EXCEPT ![c] =
            hyper_begin(get_call("get_manga", id), format_get("manga", id))]
    /\ UNCHANGED <<client, returned>>

Hyper_get_producer(c, id) ==
    /\ client = "hyper" /\ calls[c].pc = "idle"
    /\ calls' = [calls EXCEPT ![c] =
            hyper_begin(get_call("get_producer", id), format_get("producer", id))]
    /\ UNCHANGED <<client, returned>>

Hyper_get_user(c, id) ==
    /\ client = "hyper" /\ calls[c].pc = "idle"
    /\ calls' = [calls EXCEPT ![c] =
            hyper_begin(get_call("get_user", id), format_get("users", id))]
    /\ UNCHANGED <<client, returned>>

Hyper_search_anime(c, f) ==
    /\ client = "hyper" /\ calls[c].pc = "idle"
    /\ LET r == run_filter(f)
       IN  calls' = [calls EXCEPT ![c] =
               hyper_begin(search_call("search_anime", f, r), format_search("anime", r.params))]
    /\ UNCHANGED <<client, returned>>

Hyper_search_characters(c, f) ==
    /\ client = "hyper" /\ calls[c].pc = "idle"
    /\ LET r == run_filter(f)
       IN  calls' = [calls EXCEPT ![c] =
               hyper_begin(search_call("search_characters", f, r),
                           format_search("characters", r.params))]
    /\ UNCHANGED <<client, returned>>

Hyper_search_manga(c, f) ==
    /\ client = "hyper" /\ calls[c].pc = "idle"
    /\ LET r == run_filter(f)
       IN  calls' = [calls EXCEPT ![c] =
               hyper_begin(search_call("search_manga", f, r), format_search("manga", r.params))]
    /\ UNCHANGED <<client, returned>>

Hyper_search_users(c, f) ==
    /\ client = "hyper" /\ calls[c].pc = "idle"
    /\ LET r == run_filter(f)
       IN  calls' = [calls EXCEPT ![c] =
               hyper_begin(search_call("search_users", f, r), format_search("users", r.params))]
    /\ UNCHANGED <<client, returned>>

\* The boxed future resolves: the combinator chain runs on the outcome of get.
Hyper_complete(c, o) ==
    /\ client = "hyper" /\ calls[c].pc = "awaiting"
    /\ LET h == hyper_chain(IsVec(calls[c].op), o)
       IN  calls' = [calls EXCEPT ![c] =
               finish([@ EXCEPT !.resp = o, !.statusRead = h.statusRead,
                                !.bodyReads = h.bodyReads, !.decodes = h.decodes],
                      h.result)]
    /\ UNCHANGED <<client, returned>>

(* ------------------------------ the caller ----------------------------- *)

\* The caller takes the result; nothing of the call stays with the client.
Return(c) ==
    /\ calls[c].pc = "done"
    /\ returned < MaxReturned
    /\ calls' = [calls EXCEPT ![c] = IdleCall]
    /\ returned' = returned + 1
    /\ UNCHANGED client

Next ==
    \E c \in SeqSlots :
        \/ \E id \in Ids :
              \/ Reqwest_get_anime(c, id)
              \/ Reqwest_get_manga(c, id)
              \/ Reqwest_get_user(c, id)
              \/ Hyper_get_anime(c, id)
              \/ Hyper_get_character(c, id)
              \/ Hyper_get_manga(c, id)
              \/ Hyper_get_producer(c, id)
              \/ Hyper_get_user(c, id)
        \/ \E f \in FilterFns :
              \/ Reqwest_search_anime(c, f)
              \/ Reqwest_search_manga(c, f)
              \/ Reqwest_search_users(c, f)
              \/ Hyper_search_anime(c, f)
              \/ Hyper_search_characters(c, f)
              \/ Hyper_search_manga(c, f)
              \/ Hyper_search_users(c, f)
        \/ \E o \in Outcomes :
              \/ Reqwest_complete(c, o)
              \/ Hyper_complete(c, o)
        \/ Return(c)

Spec == Init /\ [][Next]_vars

(* --------------------------- concurrent calls -------------------------- *)

\* Two calls in flight on one client, with the arguments and replies of the
\* callers' examples: id 1, one chained filter and one raw builder, and for
\* each request a failure or a 200 or 404 reply.
ConcIds == { 1 }

ConcFilterFns ==
    { [kind |-> "chain", pairs |-> <<p>>, raw |-> <<>>] :
          p \in { q \in PairChoices : q[2] = <<"orange">> } }
    \cup { [kind |-> "raw", pairs |-> <<>>, raw |-> r] : r \in RawChoices }

ConcOutcomes ==
    { o \in Outcomes :
        \/ o.kind = "failed"
        \/ /\ o.status \in { 200, 404 }
           /\ o.body.key \in { "garbage", "data" }
           /\ Len(o.body.items) = 1 }

NextConc ==
    \E c \in Slots :
        \/ \E id \in ConcIds :
              \/ Reqwest_get_anime(c, id)
              \/ Reqwest_get_manga(c, id)
              \/ Reqwest_get_user(c, id)
              \/ Hyper_get_anime(c, id)
              \/ Hyper_get_character(c, id)
              \/ Hyper_get_manga(c, id)
              \/ Hyper_get_producer(c, id)
              \/ Hyper_get_user(c, id)
        \/ \E f \in ConcFilterFns :
              \/ Reqwest_search_anime(c, f)
              \/ Reqwest_search_manga(c, f)
              \/ Reqwest_search_users(c, f)
              \/ Hyper_search_anime(c, f)
              \/ Hyper_search_characters(c, f)
              \/ Hyper_search_manga(c, f)
              \/ Hyper_search_users(c, f)
        \/ \E o \in ConcOutcomes :
              \/ Reqwest_complete(c, o)
              \/ Hyper_complete(c, o)
        \/ Return(c)

SpecConc == Init /\ [][NextConc]_vars

(* ------------------------------ properties ---------------------------- *)

Done(c) == calls[c].pc = "done"

GotResponse(c) == Done(c) /\ calls[c].resp.kind = "http"

\* The body has the shape the method decodes: {"data": {...}} for get_*,
\* {"data": [...]} for search_*.
BodyMatches(c) ==
    /\ calls[c].resp.body.wellformed
    /\ calls[c].resp.body.key = "data"
    /\ calls[c].resp.body.isArray = (calls[c].op \in SearchOps)

\* C1: on the reqwest client, a response whose status is not 200 gives an
\* error chosen by the status alone (400: ReqwestBad, 401: ReqwestUnauthorized,
\* any other: ReqwestInvalid), and the error holds the response as received.
C1_StatusDecidesError ==
    \A c \in Slots :
        (client = "reqwest" /\ GotResponse(c) /\ calls[c].resp.status # 200) =>
            /\ calls[c].result.kind = "err"
            /\ calls[c].result.variant =
                  (IF calls[c].resp.status = 400 THEN "ReqwestBad"
                   ELSE IF calls[c].resp.status = 401 THEN "ReqwestUnauthorized"
                   ELSE "ReqwestInvalid")
            /\ calls[c].result.response = calls[c].resp
            /\ calls[c].result.response.status = calls[c].resp.status
            /\ calls[c].result.response.body = calls[c].resp.body

\* A 201 reply with a body that would decode ends as ReqwestInvalid.
C1_Witness ==
    \E c \in Slots :
        /\ client = "reqwest" /\ GotResponse(c)
        /\ calls[c].resp.status = 201 /\ BodyMatches(c)
        /\ calls[c].result.variant = "ReqwestInvalid"
        /\ calls[c].result.response.body.items # <<>>

\* C2: a 200 response whose body has the expected shape gives a successful
\* Response<T> whose data are the data of the body, member for member.
C2_DecodedDataEqualsBody ==
    \A c \in Slots :
        (GotResponse(c) /\ calls[c].resp.status = 200 /\ BodyMatches(c)) =>
            /\ calls[c].result.kind = "ok"
            /\ calls[c].result.value.vec = (calls[c].op \in SearchOps)
            /\ Len(calls[c].result.value.data) = Len(calls[c].resp.body.items)
            /\ \A i \in 1..Len(calls[c].resp.body.items) :
                  calls[c].result.value.data[i].id = calls[c].resp.body.items[i].id

\* get_manga(1) answered by {"data": {"id": "1"}} returns data.id = "1".
C2_Witness ==
    \E c \in Slots :
        /\ GotResponse(c) /\ calls[c].op = "get_manga" /\ calls[c].id = 1
        /\ calls[c].resp.status = 200
        /\ calls[c].resp.body.items = <<Item("1")>>
        /\ calls[c].result.kind = "ok"
        /\ calls[c].result.value.data[1].id = "1"

\* C3: a 200 response whose body does not decode into T gives Error::Json,
\* never a success or a status error, and the call has sent one request only.
C3_DecodeFailureIsJson ==
    \A c \in Slots :
        (GotResponse(c) /\ calls[c].resp.status = 200 /\ ~BodyMatches(c)) =>
            /\ calls[c].result.kind = "err"
            /\ calls[c].result.variant = "Json"
            /\ calls[c].sent = 1

\* C4: on both clients a call succeeds only for a response with status 200
\* whose body decoded into T.
C4_SuccessOnlyFrom200 ==
    \A c \in Slots :
        (Done(c) /\ calls[c].result.kind = "ok") =>
            /\ calls[c].resp.kind = "http"
            /\ calls[c].resp.status = 200
            /\ BodyMatches(c)

\* The string a call assembled does not parse with the parser of its client.
ParseFails(c) ==
    IF client = "reqwest" THEN ~Url_parse(calls[c].built).ok
    ELSE ~Uri_from_str(calls[c].built).ok

\* C5: a call whose assembled string does not parse as a URL has ended with
\* the URL error of its client and has sent no request.
C5_UnparsableUrlSendsNothing ==
    \A c \in Slots :
        (calls[c].pc # "idle" /\ ParseFails(c)) =>
            /\ Done(c)
            /\ calls[c].result.kind = "err"
            /\ calls[c].result.variant = (IF client = "reqwest" THEN "ReqwestParse" ELSE "Uri")
            /\ calls[c].sent = 0
            /\ calls[c].resp = NoResp
            /\ calls[c].url = <<>>

\* A search on the hyper client whose query holds a space ends with Error::Uri.
C5_Witness ==
    \E c \in Slots :
        /\ client = "hyper" /\ Done(c) /\ calls[c].op \in SearchOps
        /\ Contains(calls[c].built, " ")
        /\ calls[c].result.variant = "Uri" /\ calls[c].sent = 0

\* C6: a call sends at most one GET; a call that ended after the transport
\* answered or failed has sent exactly one, whatever its result.
C6_AtMostOneRequest ==
    \A c \in Slots :
        /\ calls[c].sent <= 1
        /\ (calls[c].pc = "awaiting" => calls[c].sent = 1)
        /\ (Done(c) /\ calls[c].resp.kind # "none") =>
              (calls[c].sent = 1 /\ calls[c].result.kind # "none")

\* A call that ended with an error after a response, having sent one request.
C6_Witness ==
    \E c \in Slots :
        /\ GotResponse(c) /\ calls[c].result.kind = "err" /\ calls[c].sent = 1

\* C7: when the exchange fails, the call returns the transport error of its
\* client; no status was read, no body was read or decoded, one request sent.
C7_NetworkFailureIsTransportError ==
    \A c \in Slots :
        (Done(c) /\ calls[c].resp.kind = "failed") =>
            /\ calls[c].result.kind = "err"
            /\ calls[c].result.variant = (IF client = "reqwest" THEN "Reqwest" ELSE "Hyper")
            /\ calls[c].result.cause = (IF client = "reqwest" THEN "send" ELSE "get")
            /\ ~calls[c].statusRead
            /\ calls[c].bodyReads = 0
            /\ calls[c].decodes = 0
            /\ calls[c].sent = 1

\* A reqwest call whose send() failed.
C7_Witness ==
    \E c \in Slots :
        /\ client = "reqwest" /\ Done(c) /\ calls[c].resp.kind = "failed"
        /\ calls[c].result.variant = "Reqwest"

\* The endpoint table of the get-by-id operations.
GetPath(op) ==
    CASE op = "get_anime"     -> "anime"
      [] op = "get_manga"     -> "manga"
      [] op = "get_character" -> "characters"
      [] op = "get_producer"  -> "producer"
      [] op = "get_user"      -> "users"

DigitValue(d) == CHOOSE v \in 0..9 : DigitChars[v + 1] = d

\* The number a sequence of decimal digits writes.
RECURSIVE DecimalValue(_)
DecimalValue(ds) ==
    IF Len(ds) = 1 THEN DigitValue(ds[1])
    ELSE 10 * DecimalValue(SubSeq(ds, 1, Len(ds) - 1)) + DigitValue(ds[Len(ds)])

IsDecimalOf(ds, n) ==
    /\ Len(ds) >= 1
    /\ \A i \in 1..Len(ds) : \E v \in 0..9 : DigitChars[v + 1] = ds[i]
    /\ (Len(ds) > 1 => ds[1] # "0")
    /\ DecimalValue(ds) = n

\* C8: a get-by-id call requests API_URL, the path of its operation and the
\* id in decimal, and the URL holds no "?".
C8_GetUrlIsPathAndId ==
    \A c \in Slots :
        (calls[c].op \in GetOps /\ calls[c].pc # "idle") =>
            LET prefix == API_URL \o <<"/", GetPath(calls[c].op), "/">>
                url == calls[c].url
            IN  /\ calls[c].sent = 1
                /\ Len(url) > Len(prefix)
                /\ SubSeq(url, 1, Len(prefix)) = prefix
                /\ IsDecimalOf(SubSeq(url, Len(prefix) + 1, Len(url)), calls[c].id)
                /\ ~Contains(url, "?")

\* get_producer with a two-digit id has been requested.
C8_Witness ==
    \E c \in Slots :
        /\ calls[c].op = "get_producer" /\ calls[c].pc = "awaiting"
        /\ calls[c].id >= 10 /\ Len(calls[c].url) = Len(API_URL) + 5

\* The resource path of the search operations.
SearchPath(op) ==
    CASE op = "search_anime"      -> "anime"
      [] op = "search_characters" -> "characters"
      [] op = "search_manga"      -> "manga"
      [] op = "search_users"      -> "users"

\* API_URL, the resource path, "?" and the string of the builder that the
\* call's filter function returns for an empty builder.
ExpectedSearchString(c) ==
    API_URL \o <<"/", SearchPath(calls[c].op), "?">> \o apply_fn(calls[c].f, <<>>)

\* s with every character that is illegal in a URL percent-encoded.
Normalised(s) ==
    [i \in 1..Len(s) |-> IF s[i] = " " THEN "%20" ELSE s[i]]

RECURSIVE Split(_, _, _)
Split(s, i, cur) ==
    IF i > Len(s) THEN (IF Len(s) = 0 THEN <<>> ELSE <<cur>>)
    ELSE IF s[i] = "&" THEN <<cur>> \o Split(s, i + 1, <<>>)
    ELSE Split(s, i + 1, Append(cur, s[i]))

Entries(s) == Split(s, 1, <<>>)

\* The query string of a search call: what follows API_URL "/" path "?".
QueryOf(c) == SubSeq(calls[c].built, Len(API_URL) + 4, Len(calls[c].built))

EncodedPair(p) == percent_encode(p[1]) \o <<"=">> \o percent_encode(p[2])

\* C10: the string of a builder that started empty and took a sequence of
\* filter(key, value) calls has one entry per call, in the order of the calls,
\* two calls with one key included.
C10_OneEntryPerFilterInOrder ==
    \A c \in Slots :
        (calls[c].op \in SearchOps /\ calls[c].pc # "idle" /\ calls[c].f.kind = "chain") =>
            /\ Len(Entries(QueryOf(c))) = Len(calls[c].f.pairs)
            /\ \A i \in 1..Len(calls[c].f.pairs) :
                  Entries(QueryOf(c))[i] = EncodedPair(calls[c].f.pairs[i])

\* Two filters on the key "text" with different values: both are in the query.
C10_Witness ==
    \E c \in Slots :
        /\ calls[c].op \in SearchOps /\ calls[c].pc # "idle"
        /\ Len(calls[c].f.pairs) = 2
        /\ calls[c].f.pairs[1][1] = calls[c].f.pairs[2][1]
        /\ calls[c].f.pairs[1][2] # calls[c].f.pairs[2][2]
        /\ Len(Entries(QueryOf(c))) = 2

\* The call's filter function adds no pair: it returns the builder it got.
EmptyFilter(c) == calls[c].f.kind = "chain" /\ calls[c].f.pairs = <<>>

\* C11: a search whose filter function adds no pair requests API_URL + path +
\* "?" with an empty query; the string parses, so the request is sent, and the
\* call succeeds on a 200 reply with a well-formed body.
C11_EmptyFilterSearchSucceeds ==
    \A c \in Slots :
        (calls[c].op \in SearchOps /\ calls[c].pc # "idle" /\ EmptyFilter(c)) =>
            /\ calls[c].built = API_URL \o <<"/", SearchPath(calls[c].op), "?">>
            /\ QueryOf(c) = <<>>
            /\ ~ParseFails(c)
            /\ calls[c].sent = 1
            /\ calls[c].url = calls[c].built
            /\ (GotResponse(c) /\ calls[c].resp.status = 200 /\ BodyMatches(c)) =>
                  (calls[c].result.kind = "ok"
                   /\ calls[c].result.value.data = calls[c].resp.body.items)

\* search_users with no filter, answered 200 with a list, has succeeded.
C11_Witness ==
    \E c \in Slots :
        /\ calls[c].op = "search_users" /\ EmptyFilter(c) /\ GotResponse(c)
        /\ calls[c].resp.status = 200 /\ BodyMatches(c)
        /\ Len(calls[c].url) = Len(API_URL) + 3
        /\ calls[c].result.kind = "ok"

\* The string a call assembles from its own method and arguments.
OwnString(c) ==
    IF calls[c].op \in GetOps
    THEN API_URL \o <<"/", GetPath(calls[c].op), "/">> \o u64_to_string(calls[c].id)
    ELSE ExpectedSearchString(c)

\* What a call run alone has: its URL comes from its own arguments, and its
\* result from the reply to its own request and from its own decode target.
OwnResult(c) ==
    /\ calls[c].pc # "idle" =>
          /\ calls[c].built = OwnString(c)
          /\ calls[c].sent = 1 =>
                calls[c].url = (IF client = "hyper" THEN OwnString(c)
                                ELSE Normalised(OwnString(c)))
    /\ calls[c].pc = "awaiting" => (calls[c].resp = NoResp /\ calls[c].result = NoResult)
    /\ (Done(c) /\ calls[c].resp.kind = "failed") =>
          (calls[c].result.kind = "err" /\ calls[c].result.cause \in { "send", "get" })
    /\ GotResponse(c) =>
          IF client = "reqwest" /\ calls[c].resp.status # 200
          THEN /\ calls[c].result.kind = "err"
               /\ calls[c].result.response = calls[c].resp
          ELSE IF BodyMatches(c)
          THEN /\ calls[c].result.kind = "ok"
               /\ calls[c].result.value.vec = (calls[c].op \in SearchOps)
               /\ calls[c].result.value.data = calls[c].resp.body.items
          ELSE /\ calls[c].result.kind = "err"
               /\ calls[c].result.cause = "decode"

\* A step of one call leaves every other call as it was.
OneCallPerStep ==
    \A c \in Slots :
        calls'[c] # calls[c] => \A d \in Slots \ {c} : calls'[d] = calls[d]

\* C12: with two calls in flight on one client, in every interleaving of
\* their requests and replies each call has the result of its own URL and its
\* own reply, as if run alone, and no step of one call touches the other.
C12_ConcurrentCallsIndependent ==
    [](\A c \in Slots : OwnResult(c)) /\ [][OneCallPerStep]_vars

\* get_anime(1) and get_manga(1) were in flight together; the first got a 200
\* reply and succeeded, the second got a 404 reply and failed.
C12_Witness ==
    /\ calls[1].op = "get_anime" /\ calls[1].id = 1 /\ GotResponse(1)
    /\ calls[2].op = "get_manga" /\ calls[2].id = 1 /\ GotResponse(2)
    /\ calls[1].resp.status = 200 /\ calls[1].result.kind = "ok"
    /\ calls[1].result.value.data = <<Item("1")>>
    /\ calls[2].resp.status = 404 /\ calls[2].result.kind = "err"
    /\ calls[2].result.response.body.items = <<Item("2")>>

\* The operations both clients have.
CommonOps ==
    { "get_anime", "get_manga", "get_user", "search_anime", "search_manga", "search_users" }

\* The kind of an error in the taxonomy of the library: URL, network,
\* deserialization, or one of the three status errors.
ErrorKind(r) ==
    CASE r.variant \in { "ReqwestParse", "Uri" }  -> "url"
      [] r.variant = "Hyper"                        -> "network"
      [] r.variant = "Reqwest" /\ r.cause = "send"  -> "network"
      [] r.variant = "Reqwest" /\ r.cause # "send"  -> "deserialization"
      [] r.variant = "Json"                         -> "deserialization"
      [] OTHER                                      -> r.variant

SameOutcome(a, b) ==
    /\ a.kind = b.kind
    /\ a.kind = "ok" => a.value = b.value
    /\ a.kind = "err" => ErrorKind(a) = ErrorKind(b)

\* The same method with the same arguments on the other client: how far it
\* gets with the string the call assembled, and what it returns for a reply.
OtherBegin(c) ==
    IF client = "reqwest" THEN hyper_begin(IdleCall, calls[c].built)
    ELSE reqwest_begin(IdleCall, calls[c].built)

OtherHandled(c) ==
    IF client = "reqwest" THEN hyper_chain(IsVec(calls[c].op), calls[c].resp)
    ELSE handle_request(IsVec(calls[c].op), calls[c].resp)

\* C13: for every operation both clients have, every argument and every
\* reply, the two clients request the same URL and return the same outcome.
C13_BackendsAgree ==
    \A c \in Slots :
        (calls[c].op \in CommonOps /\ calls[c].pc # "idle") =>
            /\ OtherBegin(c).sent = calls[c].sent
            /\ OtherBegin(c).url = calls[c].url
            /\ (Done(c) /\ calls[c].resp.kind = "none") =>
                  SameOutcome(calls[c].result, OtherBegin(c).result)
            /\ (Done(c) /\ calls[c].resp.kind # "none") =>
                  SameOutcome(calls[c].result, OtherHandled(c).result)

\* C14, as claimed: handle_request reads the body of the response exactly
\* once for every status.
C14_BodyReadOnceForEveryStatus ==
    \A c \in Slots :
        (client = "reqwest" /\ GotResponse(c)) => calls[c].bodyReads = 1

\* C14, amended: handle_request reads the body at most once: exactly once,
\* to decode it, when the status is 200, and not at all for any other status,
\* where the response goes to the caller unread inside the error; it sends
\* nothing further and leaves the requested URL as it was.
C14_BodyReadOnceOn200Only ==
    \A c \in Slots :
        (client = "reqwest" /\ Done(c) /\ calls[c].resp.kind # "none") =>
            /\ calls[c].bodyReads =
                  (IF calls[c].resp.kind = "http" /\ calls[c].resp.status = 200 THEN 1 ELSE 0)
            /\ calls[c].decodes = calls[c].bodyReads
            /\ calls[c].bodyReads = 0 /\ calls[c].resp.kind = "http" =>
                  calls[c].result.response = calls[c].resp
            /\ calls[c].sent = 1
            /\ calls[c].url = Url_parse(calls[c].built).url

\* A 400 reply has ended as ReqwestBad with its body not read.
C14_Witness ==
    \E c \in Slots :
        /\ client = "reqwest" /\ GotResponse(c) /\ calls[c].resp.status = 400
        /\ calls[c].result.variant = "ReqwestBad"
        /\ calls[c].bodyReads = 0

\* The resource of a get-by-id operation and its plural: "anime" and "manga"
\* are their own plurals.
PluralPath(op) ==
    CASE op = "get_anime"     -> "anime"
      [] op = "get_manga"     -> "manga"
      [] op = "get_character" -> "characters"
      [] op = "get_producer"  -> "producers"
      [] op = "get_user"      -> "users"

\* C15: a get-by-id call requests the plural resource name, "/" and the id.
C15_GetPathIsPlural ==
    \A c \in Slots :
        (calls[c].op \in GetOps /\ calls[c].sent >= 1) =>
            calls[c].url =
                API_URL \o <<"/", PluralPath(calls[c].op), "/">> \o u64_to_string(calls[c].id)

StatusVariants == { "ReqwestBad", "ReqwestUnauthorized", "ReqwestInvalid" }

\* C16: on the hyper client the result of a call that got a response depends
\* on the body alone: success with the data of the body when the body decodes,
\* Error::Json when it does not, whatever the status; the status is not read
\* and no status error is returned.
C16_HyperIgnoresStatus ==
    \A c \in Slots :
        (client = "hyper" /\ GotResponse(c)) =>
            /\ ~calls[c].statusRead
            /\ calls[c].result.variant \notin StatusVariants
            /\ IF BodyMatches(c)
               THEN /\ calls[c].result.kind = "ok"
                    /\ calls[c].result.value.data = calls[c].resp.body.items
               ELSE /\ calls[c].result.kind = "err"
                    /\ calls[c].result.variant = "Json"

\* A 401 reply whose body decodes has ended in success on the hyper client.
C16_Witness ==
    \E c \in Slots :
        /\ client = "hyper" /\ GotResponse(c) /\ calls[c].resp.status = 401
        /\ BodyMatches(c) /\ calls[c].result.kind = "ok"

====
